---- MODULE Spec2Model ----
(***************************************************************************)
(* State-machine model of addon/services/stripe.js: the Stripe service     *)
(* (init / load / configure / stripePromise / the three createToken        *)
(* wrappers / connectReader) and the application initializer initialize(). *)
(*                                                                         *)
(* JavaScript is single threaded: every action below is one synchronous    *)
(* run-to-completion piece of code (a method call, one promise reaction,   *)
(* or one callback).  What is asynchronous in the source (script fetches,  *)
(* vendor callbacks, vendor promises) is a pending entry that a later      *)
(* action completes, in any order.                                         *)
(***************************************************************************)
EXTENDS Integers, Sequences, FiniteSets

VARIABLES
  config,                 \* config:stripe, injected by initialize()
  phase,                  \* "boot" | "failed" | "booted" | "ready"
  windowStripe,           \* what window.Stripe is: "page" (whatever the page has) | "mock"
  didConfigure,           \* this.didConfigure
  terminal,               \* this.terminal: "null" | "terminal"
  card,                   \* TRUE when this.card / bankAccount / piiData are installed
  connectedReader,        \* this.connectedReader: "null" or a reader
  runCount,               \* this.runCount
  ops,                    \* load() chains started, in start order (one per load / createToken call)
  conns,                  \* connectReader() calls, in start order
  connDone,               \* number of connectReader results delivered so far
  setPublishableKeyCalls, \* times Stripe.setPublishableKey was called
  terminalCreateCalls,    \* times StripeTerminal.create was called
  configureCalls,         \* times configure() was entered
  loadScriptCalls,        \* times loadScript() was called
  directCalls             \* init()/configure() invocations made directly by the application

vars == <<config, phase, windowStripe, didConfigure, terminal, card, connectedReader,
          runCount, ops, conns, connDone, setPublishableKeyCalls, terminalCreateCalls,
          configureCalls, loadScriptCalls, directCalls>>

\* what configure() may write
cfgVars == <<didConfigure, terminal, card, setPublishableKeyCalls, terminalCreateCalls,
             configureCalls>>

\* ------------------------------------------------------------------ bounds
MaxOps == 2
MaxConn == 2
MaxDirect == 2

Readers == {"readerA", "readerB"}
TokenKinds == {"card", "bankAccount", "piiData"}

\* Vendor responses handed to the createToken callback: one without and one
\* with an error field.
Responses == {"response_token", "response_error"}

\* response.error
ErrorField(response) ==
  IF response = "response_error" THEN "vendor_error" ELSE "undefined"

Configs ==
  [lazyLoad : BOOLEAN, mock : BOOLEAN, terminalEnabled : BOOLEAN,
   publishableKey : BOOLEAN, fastboot : BOOLEAN]

\* ------------------------------------------------------------------ initial state
Init ==
  /\ config \in Configs
  /\ phase = "boot"
  /\ windowStripe = "page"
  /\ didConfigure = FALSE
  /\ terminal = "null"
  /\ card = FALSE
  /\ connectedReader = "null"
  /\ runCount = 0
  /\ ops = <<>>
  /\ conns = <<>>
  /\ connDone = 0
  /\ setPublishableKeyCalls = 0
  /\ terminalCreateCalls = 0
  /\ configureCalls = 0
  /\ loadScriptCalls = 0
  /\ directCalls = 0

\* ------------------------------------------------------------------ initialize()
initialize_mockFirst ==
  /\ phase = "boot"
  /\ windowStripe' = IF config.fastboot \/ config.mock THEN "mock" ELSE windowStripe
  /\ phase' = IF ~config.publishableKey THEN "failed" ELSE "booted"
  /\ UNCHANGED <<config, cfgVars, connectedReader, runCount, ops, conns, connDone,
                 loadScriptCalls, directCalls>>

\* The initializer throws before window.Stripe is touched when the key is
\* missing; a throwing initializer aborts the boot, so the service is never
\* instantiated ("failed" has no successor).
initialize ==
  /\ phase = "boot"
  /\ IF ~config.publishableKey
       THEN /\ phase' = "failed"
            /\ UNCHANGED windowStripe
       ELSE /\ phase' = "booted"
            /\ windowStripe' =
                 IF config.fastboot \/ config.mock THEN "mock" ELSE windowStripe
  /\ UNCHANGED <<config, cfgVars, connectedReader, runCount, ops, conns, connDone,
                 loadScriptCalls, directCalls>>

\* ------------------------------------------------------------------ configure()
configure_unguarded ==
  /\ configureCalls' = configureCalls + 1
  /\ setPublishableKeyCalls' = setPublishableKeyCalls + 1
  /\ card' = TRUE
  /\ IF config.terminalEnabled
       THEN /\ terminal' = "terminal"
            /\ terminalCreateCalls' = terminalCreateCalls + 1
       ELSE UNCHANGED <<terminal, terminalCreateCalls>>
  /\ didConfigure' = TRUE

configure ==
  /\ configureCalls' = configureCalls + 1
  /\ IF ~didConfigure
       THEN /\ setPublishableKeyCalls' = setPublishableKeyCalls + 1
            /\ card' = TRUE
            /\ IF config.terminalEnabled
                 THEN /\ terminal' = "terminal"
                      /\ terminalCreateCalls' = terminalCreateCalls + 1
                 ELSE UNCHANGED <<terminal, terminalCreateCalls>>
            /\ didConfigure' = TRUE
       ELSE UNCHANGED <<didConfigure, terminal, card, setPublishableKeyCalls,
                        terminalCreateCalls>>

\* ------------------------------------------------------------------ init()
eagerConfigure_lazyOnly(c) == ~c.lazyLoad

\* if (!lazyLoad || mock)
eagerConfigure(c) == ~c.lazyLoad \/ c.mock

initBody ==
  IF eagerConfigure(config) THEN configure ELSE UNCHANGED cfgVars

init ==
  /\ phase = "booted"
  /\ phase' = "ready"
  /\ initBody
  /\ UNCHANGED <<config, windowStripe, connectedReader, runCount, ops, conns, connDone,
                 loadScriptCalls, directCalls>>

\* ------------------------------------------------------------------ load()
\* Fetch states: "none" (no fetch: the promise is resolve()), "inflight", "ok", "fail".
loadCoreSdk_ignoreMock(c) == IF c.lazyLoad THEN "inflight" ELSE "none"

\* lazyLoad && !mock ? loadScript(defaultCoreSdkUrl) : resolve()
loadCoreSdk(c) == IF c.lazyLoad /\ ~c.mock THEN "inflight" ELSE "none"

\* lazyLoad && terminalEnabled ? loadScript(defaultTerminalSdkUrl) : resolve()
loadTerminalSdk(c) == IF c.lazyLoad /\ c.terminalEnabled THEN "inflight" ELSE "none"

Started(f) == IF f = "none" THEN 0 ELSE 1

\* The synchronous part of load(): both loadScript() calls are made here, before
\* the promise chain is built.  pc is the chain's position:
\*   "awaitCore" -> "awaitTerminal" -> "configure" -> "loaded"   (or "loadFailed")
\* and, for a createToken call, "loaded" -> "vendor" -> "resolved" | "rejected".
NewOp(kind) ==
  [kind |-> kind, pc |-> "awaitCore",
   core |-> loadCoreSdk(config), term |-> loadTerminalSdk(config),
   response |-> "undefined", value |-> "undefined", settles |-> 0]

startLoad(kind) ==
  /\ Len(ops) < MaxOps
  /\ ops' = Append(ops, NewOp(kind))
  /\ loadScriptCalls' = loadScriptCalls + Started(loadCoreSdk(config))
                                        + Started(loadTerminalSdk(config))

\* load() called by the application
load ==
  /\ phase = "ready"
  /\ startLoad("load")
  /\ UNCHANGED <<config, phase, windowStripe, cfgVars, connectedReader, runCount, conns,
                 connDone, directCalls>>

\* A script fetch ends: the promise loadScript() returned resolves or rejects.
scriptLoaded(i, which, ok) ==
  /\ i \in 1..Len(ops)
  /\ ops[i][which] = "inflight"
  /\ ops' = [ops EXCEPT ![i][which] = IF ok THEN "ok" ELSE "fail"]
  /\ UNCHANGED <<config, phase, windowStripe, cfgVars, connectedReader, runCount, conns,
                 connDone, loadScriptCalls, directCalls>>

\* A rejected script promise rejects the whole chain (and with it the promise
\* stripePromise returned): no later reaction of the chain runs.
Reject(i) ==
  [ops EXCEPT ![i].pc = "loadFailed", ![i].value = "load_error",
              ![i].settles = ops[i].settles + 1]

\* .then(() => loadCoreSdk).then(() => this.debug('core stripe script loaded'))
awaitCore(i) ==
  /\ i \in 1..Len(ops)
  /\ ops[i].pc = "awaitCore"
  /\ ops[i].core # "inflight"
  /\ ops' = IF ops[i].core = "fail" THEN Reject(i)
            ELSE [ops EXCEPT ![i].pc = "awaitTerminal"]
  /\ UNCHANGED <<config, phase, windowStripe, cfgVars, connectedReader, runCount, conns,
                 connDone, loadScriptCalls, directCalls>>

awaitTerminal_noWait(i) ==
  /\ i \in 1..Len(ops)
  /\ ops[i].pc = "awaitTerminal"
  /\ ops' = IF ops[i].term = "fail" THEN Reject(i)
            ELSE [ops EXCEPT ![i].pc = "configure"]
  /\ UNCHANGED <<config, phase, windowStripe, cfgVars, connectedReader, runCount, conns,
                 connDone, loadScriptCalls, directCalls>>

\* .then(() => loadTerminalSdk).then(() => this.debug('stripe terminal script loaded'))
awaitTerminal(i) ==
  /\ i \in 1..Len(ops)
  /\ ops[i].pc = "awaitTerminal"
  /\ ops[i].term # "inflight"
  /\ ops' = IF ops[i].term = "fail" THEN Reject(i)
            ELSE [ops EXCEPT ![i].pc = "configure"]
  /\ UNCHANGED <<config, phase, windowStripe, cfgVars, connectedReader, runCount, conns,
                 connDone, loadScriptCalls, directCalls>>

\* .then(() => { this.configure(); ... })
loadThenConfigure(i) ==
  /\ i \in 1..Len(ops)
  /\ ops[i].pc = "configure"
  /\ configure
  /\ ops' = [ops EXCEPT ![i].pc = "loaded"]
  /\ UNCHANGED <<config, phase, windowStripe, connectedReader, runCount, conns, connDone,
                 loadScriptCalls, directCalls>>

\* ------------------------------------------------------------------ createToken
incrementProperty_skip(n) == n

incrementProperty(n) == n + 1

decrementProperty(n) == n - 1

\* card.createToken / bankAccount.createToken / piiData.createToken exist only
\* once configure() has installed them.
createToken(kind) ==
  /\ phase = "ready"
  /\ card
  /\ runCount' = incrementProperty(runCount)
  /\ startLoad(kind)
  /\ UNCHANGED <<config, phase, windowStripe, cfgVars, connectedReader, conns, connDone,
                 directCalls>>

_createCardToken == createToken("card")

_createBankAccountToken == createToken("bankAccount")

_createPiiDataToken == createToken("piiData")

\* this.load().then(() => new EmberPromise(callback)): the vendor's createToken
\* is invoked, its callback is pending.
stripePromise(i) ==
  /\ i \in 1..Len(ops)
  /\ ops[i].kind \in TokenKinds
  /\ ops[i].pc = "loaded"
  /\ ops' = [ops EXCEPT ![i].pc = "vendor"]
  /\ UNCHANGED <<config, phase, windowStripe, cfgVars, connectedReader, runCount, conns,
                 connDone, loadScriptCalls, directCalls>>

settle_errorOnly(response) ==
  IF ErrorField(response) # "undefined"
    THEN <<"rejected", ErrorField(response)>>
    ELSE <<"resolved", response>>

\* if (response.error) { reject(response); } else { resolve(response); }
settle(response) ==
  IF ErrorField(response) # "undefined"
    THEN <<"rejected", response>>
    ELSE <<"resolved", response>>

\* The vendor's callback (status, response) => { ... } of the three wrappers.
createTokenHandler(i, response) ==
  /\ i \in 1..Len(ops)
  /\ ops[i].pc = "vendor"
  /\ ops' = [ops EXCEPT ![i].pc = settle(response)[1],
                        ![i].value = settle(response)[2],
                        ![i].response = response,
                        ![i].settles = ops[i].settles + 1]
  /\ runCount' = decrementProperty(runCount)
  /\ UNCHANGED <<config, phase, windowStripe, cfgVars, connectedReader, conns, connDone,
                 loadScriptCalls, directCalls>>

\* ------------------------------------------------------------------ connectReader()
\* terminal.connectReader(reader) on a null terminal throws: the async function
\* rejects and nothing is pending.
connectReader(reader) ==
  /\ phase = "ready"
  /\ Len(conns) < MaxConn
  /\ conns' = Append(conns,
       [reader |-> reader, doneAt |-> 0,
        st |-> IF terminal = "null" THEN "threw" ELSE "pending"])
  /\ UNCHANGED <<config, phase, windowStripe, cfgVars, connectedReader, runCount, ops,
                 connDone, loadScriptCalls, directCalls>>

connectResult_always(i, error) ==
  /\ i \in 1..Len(conns)
  /\ conns[i].st = "pending"
  /\ connDone' = connDone + 1
  /\ conns' = [conns EXCEPT ![i].st = IF error THEN "error" ELSE "ok",
                            ![i].doneAt = connDone + 1]
  /\ connectedReader' = conns[i].reader
  /\ UNCHANGED <<config, phase, windowStripe, cfgVars, runCount, ops, loadScriptCalls,
                 directCalls>>

\* The continuation after `await terminal.connectReader(reader)`.
connectResult(i, error) ==
  /\ i \in 1..Len(conns)
  /\ conns[i].st = "pending"
  /\ connDone' = connDone + 1
  /\ conns' = [conns EXCEPT ![i].st = IF error THEN "error" ELSE "ok",
                            ![i].doneAt = connDone + 1]
  /\ connectedReader' = IF error THEN connectedReader ELSE conns[i].reader
  /\ UNCHANGED <<config, phase, windowStripe, cfgVars, runCount, ops, loadScriptCalls,
                 directCalls>>

\* ------------------------------------------------------------------ direct re-invocations
\* init() invoked again on the live service
initAgain ==
  /\ phase = "ready"
  /\ directCalls < MaxDirect
  /\ directCalls' = directCalls + 1
  /\ initBody
  /\ UNCHANGED <<config, phase, windowStripe, connectedReader, runCount, ops, conns,
                 connDone, loadScriptCalls>>

\* configure() invoked by the application
configureDirect ==
  /\ phase = "ready"
  /\ directCalls < MaxDirect
  /\ directCalls' = directCalls + 1
  /\ configure
  /\ UNCHANGED <<config, phase, windowStripe, connectedReader, runCount, ops, conns,
                 connDone, loadScriptCalls>>

\* ------------------------------------------------------------------ specifications
\* The service as the application drives it through load() and createToken.
Next ==
  \/ initialize
  \/ init
  \/ load
  \/ \E i \in 1..Len(ops), which \in {"core", "term"}, ok \in BOOLEAN :
       scriptLoaded(i, which, ok)
  \/ \E i \in 1..Len(ops) : awaitCore(i)
  \/ \E i \in 1..Len(ops) : awaitTerminal(i)
  \/ \E i \in 1..Len(ops) : loadThenConfigure(i)
  \/ _createCardToken
  \/ _createBankAccountToken
  \/ _createPiiDataToken
  \/ \E i \in 1..Len(ops) : stripePromise(i)
  \/ \E i \in 1..Len(ops), response \in Responses : createTokenHandler(i, response)

Spec == Init /\ [][Next]_vars

\* Every way into configure(): init(), load() chains (several in flight at
\* once), and init() and configure() invoked again directly on the live service.
NextCfg ==
  \/ initialize
  \/ init
  \/ load
  \/ \E i \in 1..Len(ops), which \in {"core", "term"}, ok \in BOOLEAN :
       scriptLoaded(i, which, ok)
  \/ \E i \in 1..Len(ops) : awaitCore(i)
  \/ \E i \in 1..Len(ops) : awaitTerminal(i)
  \/ \E i \in 1..Len(ops) : loadThenConfigure(i)
  \/ initAgain
  \/ configureDirect

SpecCfg == Init /\ [][NextCfg]_vars

\* The terminal side: load() chains bring the terminal up, connectReader() calls
\* run against it.
NextReader ==
  \/ initialize
  \/ init
  \/ load
  \/ \E i \in 1..Len(ops), which \in {"core", "term"}, ok \in BOOLEAN :
       scriptLoaded(i, which, ok)
  \/ \E i \in 1..Len(ops) : awaitCore(i)
  \/ \E i \in 1..Len(ops) : awaitTerminal(i)
  \/ \E i \in 1..Len(ops) : loadThenConfigure(i)
  \/ \E reader \in Readers : connectReader(reader)
  \/ \E i \in 1..Len(conns), error \in BOOLEAN : connectResult(i, error)

SpecReader == Init /\ [][NextReader]_vars

\* ------------------------------------------------------------------ properties
IsToken(o) == o.kind \in TokenKinds

\* the promise the call returned has settled
Settled(o) == o.pc \in {"resolved", "rejected", "loadFailed"}

\* the vendor's createToken has been invoked for this call
Invoked(o) == o.pc \in {"vendor", "resolved", "rejected"}

\* the load() chain of this call has run to its end
ChainDone(o) == o.pc \in {"loaded", "vendor", "resolved", "rejected"}

OpIds == 1..Len(ops)

ConnIds == 1..Len(conns)

\* C1: once every promise returned by a createToken call has settled (resolved,
\* rejected by the vendor callback, or rejected because load() failed), runCount
\* is 0 again.
C1_RunCountZeroWhenAllSettled ==
  (\A i \in OpIds : IsToken(ops[i]) => Settled(ops[i])) => runCount = 0

\* C3: runCount is never negative: it is the number of createToken calls made
\* minus the number of vendor callbacks that have run, and every callback
\* belongs to a call made before it.
C3_RunCountNonNegative ==
  /\ runCount >= 0
  /\ runCount = Cardinality({i \in OpIds : IsToken(ops[i])})
                - Cardinality({i \in OpIds : ops[i].pc \in {"resolved", "rejected"}})

C3_Witness ==
  /\ \E i \in OpIds : ops[i].pc \in {"resolved", "rejected"}
  /\ \E i \in OpIds : ops[i].pc = "vendor"
  /\ runCount = 1

\* C4 (as stated): a call rejected from the vendor callback is rejected with
\* the vendor's error object, response.error.
C4_RejectsWithErrorObject ==
  \A i \in OpIds : ops[i].pc = "rejected" => ops[i].value = ErrorField(ops[i].response)

\* C4 (amended): once the vendor callback has run, the promise has been settled
\* exactly once; it is rejected iff the response has an error field, resolved
\* otherwise, and in both cases the value is the untransformed response (on
\* rejection the whole response, not its error field).  A call still waiting
\* for the callback is unsettled.
C4_SettlesWithResponse ==
  \A i \in OpIds :
    /\ ops[i].pc \in {"resolved", "rejected"} =>
         /\ ops[i].settles = 1
         /\ ops[i].response \in Responses
         /\ (ops[i].pc = "rejected") <=> (ErrorField(ops[i].response) # "undefined")
         /\ ops[i].value = ops[i].response
    /\ ops[i].pc = "vendor" => ops[i].settles = 0

C4_Witness ==
  \E i \in OpIds :
    /\ ops[i].pc = "rejected"
    /\ ops[i].response = "response_error"
    /\ ops[i].value = "response_error"

\* C5: with lazyLoad, no mock and the terminal enabled, the fetch of the
\* terminal script is not started before the fetch of the core script has
\* completed.
C5_TerminalFetchAfterCore ==
  \A i \in OpIds :
    (config.lazyLoad /\ ~config.mock /\ config.terminalEnabled /\ ops[i].term # "none")
      => ops[i].core \in {"ok", "fail"}

\* C6: the vendor's createToken is invoked for a call only after every script
\* fetch its load() started has completed successfully and didConfigure is
\* true; a call with a failed fetch never gets to the vendor.
C6_VendorAfterLoad ==
  \A i \in OpIds :
    /\ Invoked(ops[i]) =>
         /\ ops[i].core \in {"none", "ok"}
         /\ ops[i].term \in {"none", "ok"}
         /\ didConfigure
    /\ (ops[i].core = "fail" \/ ops[i].term = "fail") => ~Invoked(ops[i])

C6_Witness ==
  \E i \in OpIds : ops[i].pc = "vendor" /\ ops[i].core = "ok" /\ ops[i].term = "ok"

\* C7: initialize() without a publishable key raises, and then window.Stripe
\* is not the mock and Stripe.setPublishableKey is never called.
C7_MissingKeyFailsFast ==
  /\ (phase # "boot" /\ ~config.publishableKey) => phase = "failed"
  /\ phase = "failed" =>
       /\ ~config.publishableKey
       /\ windowStripe # "mock"
       /\ setPublishableKeyCalls = 0
       /\ ~didConfigure

C7_Witness == phase = "failed" /\ config.mock /\ config.fastboot

\* C8: a load() starts the core fetch iff lazyLoad and not mock, the terminal
\* fetch iff lazyLoad and terminalEnabled; without lazyLoad nothing is ever
\* fetched, no chain fails, every chain can always take its next step, and
\* every finished chain has run configure().
C8_FetchesMatchConfig ==
  /\ \A i \in OpIds :
       /\ (ops[i].core # "none") <=> (config.lazyLoad /\ ~config.mock)
       /\ (ops[i].term # "none") <=> (config.lazyLoad /\ config.terminalEnabled)
  /\ loadScriptCalls =
       Len(ops) * ((IF config.lazyLoad /\ ~config.mock THEN 1 ELSE 0)
                   + (IF config.lazyLoad /\ config.terminalEnabled THEN 1 ELSE 0))
  /\ ~config.lazyLoad =>
       /\ loadScriptCalls = 0
       /\ \A i \in OpIds :
            /\ ops[i].pc # "loadFailed"
            /\ ops[i].pc = "awaitCore" => ENABLED awaitCore(i)
            /\ ops[i].pc = "awaitTerminal" => ENABLED awaitTerminal(i)
            /\ ops[i].pc = "configure" => ENABLED loadThenConfigure(i)
            /\ ChainDone(ops[i]) => didConfigure
       /\ phase = "ready" =>
            configureCalls = 1 + Cardinality({i \in OpIds : ChainDone(ops[i])})

C8_Witness ==
  /\ config.lazyLoad /\ config.mock /\ config.terminalEnabled
  /\ \E i \in OpIds :
       ops[i].kind = "load" /\ ops[i].core = "none" /\ ops[i].term = "ok"
       /\ ops[i].pc = "loaded"

LastOkDone ==
  CHOOSE i \in ConnIds :
    /\ conns[i].st = "ok"
    /\ \A j \in ConnIds : conns[j].st = "ok" => conns[j].doneAt <= conns[i].doneAt

\* the successful connectReader call started last
LastOkStarted ==
  CHOOSE i \in ConnIds :
    /\ conns[i].st = "ok"
    /\ \A j \in ConnIds : conns[j].st = "ok" => j <= i

\* C9 (as stated): once every connectReader result has arrived, connectedReader
\* is the reader of the most recently started call that succeeded.
C9_MostRecentlyStarted ==
  (\A i \in ConnIds : conns[i].st # "pending") =>
    connectedReader =
      IF \E i \in ConnIds : conns[i].st = "ok"
        THEN conns[LastOkStarted].reader ELSE "null"

\* C9 (amended): connectedReader is written only by a result without an error:
\* it is null while no call has succeeded, and otherwise the reader of the
\* successful call whose result arrived last.
C9_MostRecentlyCompleted ==
  connectedReader =
    IF \E i \in ConnIds : conns[i].st = "ok"
      THEN conns[LastOkDone].reader ELSE "null"

C9_Witness ==
  /\ Len(conns) >= 2
  /\ conns[1].st = "ok" /\ conns[2].st = "ok"
  /\ conns[1].doneAt > conns[2].doneAt
  /\ conns[1].reader # conns[2].reader
  /\ connectedReader = conns[1].reader

====
